---- MODULE Spec2Model ----
(***************************************************************************)
(* A model of the Qobuz download core (downloader.py, qobuz_client.py,     *)
(* metadata_utils.py) and of the bot handlers of main.py that drive it.    *)
(*                                                                         *)
(* Every coroutine is a process whose position is the await it is          *)
(* suspended at; one action is the code that runs from one resumption to   *)
(* the next suspension.  The server (API, cover and audio hosts) is the    *)
(* environment: each response is chosen with \E.                           *)
(***************************************************************************)
EXTENDS Integers, Sequences, FiniteSets, TLC

\* ------------------------------------------------------------------ bounds
NumTracks == 2      \* tracks of the one album of the catalogue
MaxChunks == 2      \* chunks of an audio body
MaxRequests == 2    \* requests (entry-point invocations) in one run
MaxSeeds == 3       \* initialSeed(...) matches in a bundle
MaxRuns == 2        \* operations (initialize, discovery) started on the client
ChunkSize == 2      \* length of a full chunk of an audio body (1024*64 bytes, line 73)
MaxPictures == 2    \* pictures attached to an audio file before it is tagged

\* --------------------------------------------------------------- constants
Procs    == {"r1", "r2"}          \* request slots of the event loop
SeqProcs == {"r1"}                \* the one slot used when requests do not overlap
Tracks   == 1..NumTracks          \* album_data["tracks"]["items"], catalog order
Qualities == {5, 6, 7, 27}        \* the four quality tiers / format ids
\* Entry points: a bare download_track call, download_album, and the bot's two
\* flows: one track (callback_track, the track branch of handle_qobuz_url) and a whole
\* album (handle_download_album, the album branch of handle_qobuz_url, which is the
\* same loop in the same try/except/finally).
Handlers == {"track", "album", "bot_track", "bot_album"}
BotHandlers == {"bot_track", "bot_album"}

VARIABLES
  quality,      \* QobuzDownloader.quality, shared by every request
  folder,       \* the album folder exists on disk
  cover_file,   \* cover.jpg: 0 absent, else the candidate (1..3) whose bytes it holds
  thumb_file,   \* thumb.jpg exists
  audio,        \* the audio files of the album folder, final names and .tmp names
  pc,           \* position of each download_track call
  call,         \* locals of each download_track call, and what it did so far
  ret,          \* what each download_track call returned or raised
  handler,      \* which entry point each request slot runs
  hpc,          \* position of each entry point
  hst,          \* locals of each entry point
  nreq,         \* requests started so far
  cl,           \* the QobuzClient object: constructor arguments and fields
  cpc,          \* position of the client's operation (initialize, a request)
  cnet,         \* the requests of the client's running or last operation, and the server
  signed,       \* the last two _generate_sig calls: arguments, clock, result
  info,         \* the last get_audio_info call: the file and the string returned
  art           \* the last cover embedding of a writer: the file's pictures before and after

fsVars  == <<folder, cover_file, thumb_file, audio>>
dtVars  == <<pc, call, ret>>
hVars   == <<handler, hpc, hst, nreq>>
dlVars  == <<quality, folder, cover_file, thumb_file, audio, pc, call, ret, handler, hpc, hst, nreq>>
clVars  == <<cl, cpc, cnet>>
fnVars  == <<signed, info, art>>
vars    == <<quality, folder, cover_file, thumb_file, audio, pc, call, ret,
             handler, hpc, hst, nreq, cl, cpc, cnet, signed, info, art>>

\* ------------------------------------------------------------- file system
\* int(self.quality) == 5 picks the lossy container, anything else the lossless one.
IsMp3(q) == q = 5
Extension(q) == IF IsMp3(q) THEN ".mp3" ELSE ".flac"

\* The writer handed to asyncio.to_thread: "tag_mp3 if is_mp3 else tag_flac".
MutAlwaysFlac(is_mp3) == "tag_flac"
Writer(is_mp3) == IF is_mp3 THEN "tag_mp3" ELSE "tag_flac"

Exts == {".mp3", ".flac"}
AudioPaths == {"final", "tmp"} \X Tracks \X Exts

\* final_path = folder_path/"NN. title.ext"; the name is a function of the track
\* number, the title and the extension.
FinalPath(t, ext) == <<"final", t, ext>>
\* tmp_path = final_path + ".tmp"
TmpPath(final) == <<"tmp", final[2], final[3]>>

NoFile == [ex |-> FALSE, chunks |-> 0, tagged |-> FALSE]

\* os.path.exists(final_path)
MutFinalExistsNever(final) == FALSE
FinalExists(final) == audio[final].ex

\* ---------------------------------------------------- download_track locals
NoImage == [large |-> "url", small |-> "url"]
NoCall == [
  track |-> 0,
  qsent |-> 0,            \* format_id sent to track/getFileUrl
  url_resp |-> "none",    \* what track/getFileUrl answered
  is_mp3 |-> FALSE,       \* is_mp3, computed at line 47
  ext |-> "",             \* extension chosen at line 48
  writer |-> "none",      \* the writer started at lines 92-95
  callback |-> FALSE,     \* pbar_callback was passed
  fh |-> "none",          \* what the open handle f writes to: none (closed), the file
                          \* now named tmp or final, or one no longer in the folder
  header |-> "none",      \* the response's Content-Length header, while the body is
                          \* read: absent or present
  total_size |-> 0,       \* total_size, while the body is read
  body |-> <<>>,          \* the lengths of the chunks the response body comes in
  bytes |-> 0,            \* the local "downloaded": bytes written by this call
  progress |-> <<>>,      \* the arguments of each pbar_callback invocation
  image |-> NoImage,      \* album_data["image"], while _download_cover runs
  cidx |-> 0,             \* cover candidate being requested, while it runs
  cover_path |-> FALSE,   \* cover_path is a path (TRUE) or None (FALSE)
  thumb_path |-> FALSE,   \* thumb_path is a path (TRUE) or None (FALSE)
  downloaded |-> 0,       \* chunks written by this call
  tag_result |-> "none",  \* how the tagger ended
  \* requests issued by this call
  n_track_get |-> 0, n_file_url |-> 0, n_cover |-> 0, n_stream |-> 0,
  \* file-system operations of this call
  n_mkdir |-> 0, n_tmp_open |-> 0, n_thumb_rm |-> 0, n_thumb_gen |-> 0, n_tag |-> 0,
  \* the disk as it was when the call started
  pre_folder |-> FALSE, pre_cover |-> 0, pre_thumb |-> FALSE,
  pre_audio |-> [a \in AudioPaths |-> NoFile]
]

NoRet == [kind |-> "none", path |-> <<>>, cover |-> FALSE, thumb |-> FALSE, why |-> ""]

NoHst == [
  track |-> 0,             \* the track a single-track entry point asks for
  callback |-> FALSE,      \* download_album was given a pbar_callback
  user_q |-> 0,            \* user_q, the quality of the user who sent the request
  idx |-> 0,               \* loop index over the album's tracks
  got_album |-> FALSE,     \* album/get answered
  results |-> <<>>,        \* downloaded_data / the results delivered so far
  logged |-> <<>>,         \* tracks whose failure the album loop logged
  failed |-> <<>>,         \* tracks whose download_track call raised
  attempts |-> [t \in Tracks |-> 0],
  clean |-> FALSE,         \* folder_to_clean is set
  outcome |-> "none"       \* ok | error (reported to the user) | raised
]

\* ------------------------------------------------------------ client fields
\* Secrets are named; "" is the empty string or None (falsy in "if not secret").
Timezones == {"a", "b", "c"}
SecretOf(tz) == "sec_" \o tz
ConfiguredSecret == "sec_cfg"

NoClient == [
  \* constructor arguments: supplied (truthy) or not
  arg_email |-> FALSE, arg_token |-> FALSE, arg_app_id |-> FALSE, arg_secret |-> FALSE,
  \* fields
  user_auth_token |-> "",     \* "", "supplied" or "login"
  app_id |-> "",              \* "", "configured" or "scraped"
  active_secret |-> "",
  secrets |-> <<>>,
  hdr_app_id |-> "",          \* X-App-Id of the shared httpx client
  hdr_token |-> "",           \* X-User-Auth-Token of the shared httpx client
  pidx |-> 0,                 \* position of _find_active_secret in self.secrets
  error |-> "",               \* the exception the running or last operation raised
  \* what the running or last _find_active_secret did
  find |-> "none",            \* none | running | found | raised
  pre_active |-> "",          \* active_secret when it was called
  probed |-> <<>>,            \* the positions it probed, in the order of the probes
  answers |-> <<>>,           \* what the probes were answered with, in that order
  warned |-> 0,               \* warnings it logged (line 147)
  \* the operation in progress
  caller |-> "none",          \* none | initialize | discover
  runs |-> 0                  \* operations started since construction
]

\* Every secret the client can hold.
SecretNames == {SecretOf(tz) : tz \in Timezones} \cup {ConfiguredSecret}

\* The headers and the fields of the client when a request left through self.client.
NoRequest == [kind |-> "none", hdr_app_id |-> "", hdr_token |-> "",
              app_id |-> "", token |-> ""]

\* One call of a request()-based method: what it sent and how it ended.
NoApi == [endpoint |-> "none", sent |-> 0, status |-> "", outcome |-> "none"]

\* What the server has answered so far, kept when the server is a fixed snapshot: a
\* repeated request is then answered as it was before. Each field holds the one answer
\* given, or nothing.
NoMemo == [login_page |-> {}, bundle |-> {}, login |-> {},
           probe |-> [s \in SecretNames |-> {}]]

NoNet == [
  \* requests of the running or last operation, by kind
  login_page |-> 0, bundle |-> 0, login |-> 0, probe |-> 0,
  login_status |-> "",        \* HTTP status of the answer to user/login
  login_body |-> "",          \* what the body of that answer held
  last |-> NoRequest,         \* the last request sent through self.client
  api |-> NoApi,              \* the running or last request()-based call
  snapshot |-> FALSE,         \* the server is a fixed snapshot
  memo |-> NoMemo,
  first |-> {}                \* the first operation that ran discovery, and the candidate
                              \* list and active secret it ended with
]

\* get_audio_info has not been called.
NoInfo == [called |-> FALSE]

\* No writer has run.
NoArt == [called |-> FALSE]

\* ------------------------------------------------------------------- Init
\* The state after construction, for a set of quality arguments and a server.
InitWith(qualities, net) ==
  /\ quality \in qualities     \* the constructor's quality argument
  /\ folder = FALSE
  /\ cover_file = 0
  /\ thumb_file = FALSE
  /\ audio = [a \in AudioPaths |-> NoFile]
  /\ pc = [p \in Procs |-> "idle"]
  /\ call = [p \in Procs |-> NoCall]
  /\ ret = [p \in Procs |-> NoRet]
  /\ handler = [p \in Procs |-> "none"]
  /\ hpc = [p \in Procs |-> "idle"]
  /\ hst = [p \in Procs |-> NoHst]
  /\ nreq = 0
  /\ cl = NoClient
  /\ cpc = "new"
  /\ cnet = net
  /\ signed = <<>>
  /\ info = NoInfo
  /\ art = NoArt

\* A server free to answer each request anew.
Init == InitWith(Qualities, NoNet)

\* The same, the downloader left at its default quality (downloader.py line 13).
InitClient == InitWith({6}, NoNet)

\* A server that is a fixed snapshot: the same bundle and the same answers each time.
InitSnapshot == InitWith({6}, [NoNet EXCEPT !.snapshot = TRUE])

\* ------------------------------------------------ download_track, step by step
\* album_data["image"]: each entry is a URL, an empty string, null, or not there.
ImageEntries == {"url", "empty", "null", "nokey"}
Images == [large : ImageEntries, small : ImageEntries]

\* Building urls_to_try raises before any request: album_data["image"]["large"]
\* (KeyError), base_url.replace (AttributeError on None), album_data["image"]["small"]
\* (KeyError).
ImageRaises(img) == img.large \in {"null", "nokey"} \/ img.small = "nokey"

\* urls_to_try, as "is this candidate a non-empty URL": the _org guess, large, small.
Candidates(img) == <<img.large = "url", img.large = "url", img.small = "url">>

\* The next candidate after position i that the loop requests ("if not url: continue"),
\* 0 when the loop ends.
MutSmallFirst(img, i) == IF i = 0 /\ Candidates(img)[3] THEN 3 ELSE 0
NextCand(img, i) ==
  LET later == {j \in 1..3 : j > i /\ Candidates(img)[j]}
  IN IF later = {} THEN 0 ELSE CHOOSE j \in later : \A k \in later : j <= k

\* raise ... / an exception leaves download_track
Raise(p, why) ==
  /\ pc' = [pc EXCEPT ![p] = "raised"]
  /\ ret' = [ret EXCEPT ![p] = [NoRet EXCEPT !.kind = "raise", !.why = why]]

\* Lines 19-28: the call starts and requests track/get: once, whether album_data was
\* passed (line 28) or not (line 22, which then takes the album from the answer).
\* A folder_path argument, which only download_album passes, names the album folder
\* that line 42 computes from the same album_data.
BeginCallWith(p, t, callback) ==
  /\ call' = [call EXCEPT ![p] =
                [NoCall EXCEPT !.track = t,
                               !.callback = callback,
                               !.n_track_get = 1,
                               !.pre_folder = folder, !.pre_cover = cover_file,
                               !.pre_thumb = thumb_file, !.pre_audio = audio]]
  /\ pc' = [pc EXCEPT ![p] = "await_track"]
  /\ ret' = [ret EXCEPT ![p] = NoRet]

\* The call as main.py makes it: download_track(track_id) or
\* download_track(track_id, album_data), no callback.
BeginCall(p, t) == BeginCallWith(p, t, FALSE)

\* Lines 22/28 resume, line 31: track/get answers (or raise_for_status raises); the
\* call reads self.quality and requests track/getFileUrl.
RecvTrack(p) ==
  /\ pc[p] = "await_track"
  /\ \E ok \in BOOLEAN :
       IF ok
       THEN /\ call' = [call EXCEPT ![p].qsent = quality, ![p].n_file_url = @ + 1]
            /\ pc' = [pc EXCEPT ![p] = "await_file_url"]
            /\ UNCHANGED ret
       ELSE /\ Raise(p, "request_error")
            /\ UNCHANGED call
  /\ UNCHANGED <<quality, fsVars, hVars, clVars, fnVars>>

\* Lines 32-33: "if not url".
MutUrlNeverMissing(resp) == FALSE
UrlMissing(resp) == resp = "nourl"

\* Lines 31-63: track/getFileUrl answers. No url raises; otherwise the folder is made,
\* the extension chosen from self.quality as it is now, the final path checked, and
\* _download_cover entered (lines 110-127) up to its first request.
RecvFileUrlOf(p, images) ==
  /\ pc[p] = "await_file_url"
  /\ \E resp \in {"url", "nourl", "http_error"}, img \in images :
       LET c0 == [call[p] EXCEPT !.url_resp = resp] IN
       IF resp = "http_error" \/ UrlMissing(resp)
       THEN /\ call' = [call EXCEPT ![p] = c0]
            /\ Raise(p, IF resp = "http_error" THEN "request_error" ELSE "no_url")
            /\ UNCHANGED fsVars
       ELSE
         LET ext == Extension(quality)
             final == FinalPath(c0.track, ext)
             c1 == [c0 EXCEPT !.is_mp3 = IsMp3(quality), !.ext = ext, !.n_mkdir = @ + 1]
             c2 == [c1 EXCEPT !.image = img]
         IN /\ folder' = TRUE
            /\ UNCHANGED <<cover_file, thumb_file, audio>>
            /\ IF FinalExists(final)
               THEN /\ call' = [call EXCEPT ![p] = c1]
                    /\ pc' = [pc EXCEPT ![p] = "returned"]
                    /\ ret' = [ret EXCEPT ![p] = [NoRet EXCEPT !.kind = "path", !.path = final]]
               ELSE IF cover_file # 0
               THEN /\ call' = [call EXCEPT ![p] =
                                  [c1 EXCEPT !.cover_path = TRUE, !.n_stream = @ + 1]]
                    /\ pc' = [pc EXCEPT ![p] = "await_stream"]
                    /\ UNCHANGED ret
               ELSE IF ImageRaises(img)
               THEN /\ call' = [call EXCEPT ![p] = c2]
                    /\ Raise(p, "cover_metadata")
               ELSE IF NextCand(img, 0) = 0
               THEN /\ call' = [call EXCEPT ![p] =
                                  [c1 EXCEPT !.cover_path = FALSE, !.n_stream = @ + 1]]
                    /\ pc' = [pc EXCEPT ![p] = "await_stream"]
                    /\ UNCHANGED ret
               ELSE /\ call' = [call EXCEPT ![p] =
                                  [c2 EXCEPT !.cidx = NextCand(img, 0), !.n_cover = @ + 1]]
                    /\ pc' = [pc EXCEPT ![p] = "await_cover"]
                    /\ UNCHANGED ret
  /\ UNCHANGED <<quality, hVars, clVars, fnVars>>

\* The same, for any album metadata.
RecvFileUrl(p) == RecvFileUrlOf(p, Images)

\* Lines 124-137, then 66-67: a cover candidate answers. 200 writes cover.jpg and
\* returns its path; anything else (a failure to write included: the folder may have
\* been removed meanwhile) moves to the next candidate, or returns None after the
\* last. Back in download_track the audio stream is opened.
RecvCover(p) ==
  /\ pc[p] = "await_cover"
  /\ \E resp \in {"200", "non200", "error"} :
       LET c == call[p]
           j == NextCand(c.image, c.cidx)
       IN IF resp = "200" /\ folder
          THEN /\ cover_file' = c.cidx
               /\ call' = [call EXCEPT ![p].cover_path = TRUE, ![p].n_stream = @ + 1,
                                       ![p].image = NoImage, ![p].cidx = 0]
               /\ pc' = [pc EXCEPT ![p] = "await_stream"]
          ELSE IF j # 0
          THEN /\ call' = [call EXCEPT ![p].cidx = j, ![p].n_cover = @ + 1]
               /\ UNCHANGED <<cover_file, pc>>
          ELSE /\ call' = [call EXCEPT ![p].cover_path = FALSE, ![p].n_stream = @ + 1,
                                       ![p].image = NoImage, ![p].cidx = 0]
               /\ pc' = [pc EXCEPT ![p] = "await_stream"]
               /\ UNCHANGED cover_file
  /\ UNCHANGED <<quality, folder, thumb_file, audio, ret, hVars, clVars, fnVars>>

\* The bodies an audio response may come in, as the lengths of the chunks aiter_bytes
\* yields: every chunk is full but the last.
Bodies ==
  {b \in UNION {[1..n -> 1..ChunkSize] : n \in 0..MaxChunks} :
     \A i \in 1..(Len(b) - 1) : b[i] = ChunkSize}

RECURSIVE Sum(_)
Sum(lens) == IF lens = <<>> THEN 0 ELSE Head(lens) + Sum(Tail(lens))

\* int(response.headers.get("content-length", 0))
TotalSize(header, body) == IF header = "absent" THEN 0 ELSE Sum(body)

\* The call's final path is this one.
OnPath(c, final) == c.ext # "" /\ FinalPath(c.track, c.ext) = final

\* The open handles after os.rename(tmp, final): a handle on the temp file follows the
\* file to its new name, a handle on the file that was replaced is left with a file
\* that has no name.
Renamed(calls, final) ==
  [q \in Procs |->
     IF OnPath(calls[q], final) /\ calls[q].fh = "tmp"
     THEN [calls[q] EXCEPT !.fh = "final"]
     ELSE IF OnPath(calls[q], final) /\ calls[q].fh = "final"
     THEN [calls[q] EXCEPT !.fh = "unlinked"]
     ELSE calls[q]]

\* The open handles after os.remove(final).
Removed(calls, final) ==
  [q \in Procs |->
     IF OnPath(calls[q], final) /\ calls[q].fh = "final"
     THEN [calls[q] EXCEPT !.fh = "unlinked"]
     ELSE calls[q]]

\* The open handles after shutil.rmtree of the album folder.
AllRemoved(calls) ==
  [q \in Procs |->
     IF calls[q].fh # "none" THEN [calls[q] EXCEPT !.fh = "unlinked"] ELSE calls[q]]

\* Line 72: aiofiles.open(tmp_path, "wb") takes no lock and does not ask for a new
\* file: it goes ahead whoever else has the temp file open.
MutOpensExclusively(p) ==
  \A q \in Procs \ {p} :
    ~(call[q].fh = "tmp" /\ OnPath(call[q], FinalPath(call[p].track, call[p].ext)))
OpensUnguarded(p) == TRUE

\* Lines 67-72: the audio host answers. raise_for_status (or the connection) raises;
\* otherwise total_size is read from the headers and the temp file is opened for
\* writing, which creates or truncates it (and raises when the folder is gone).
RecvStreamHeadOf(p, bodies, headers) ==
  /\ pc[p] = "await_stream"
  /\ OpensUnguarded(p)
  /\ \E ok \in BOOLEAN, body \in bodies, header \in headers :
       IF ok /\ folder
       THEN /\ audio' = [audio EXCEPT
                 ![TmpPath(FinalPath(call[p].track, call[p].ext))] =
                    [ex |-> TRUE, chunks |-> 0, tagged |-> FALSE]]
            /\ call' = [call EXCEPT ![p].n_tmp_open = @ + 1,
                                    ![p].fh = "tmp",
                                    ![p].body = body,
                                    ![p].header = header,
                                    ![p].total_size = TotalSize(header, body)]
            /\ pc' = [pc EXCEPT ![p] = "streaming"]
            /\ UNCHANGED ret
       ELSE /\ Raise(p, IF ok THEN "tmp_open" ELSE "stream_status")
            /\ UNCHANGED <<audio, call>>
  /\ UNCHANGED <<quality, folder, cover_file, thumb_file, hVars, clVars, fnVars>>

\* The same, for any body, with or without a Content-Length header.
RecvStreamHead(p) == RecvStreamHeadOf(p, Bodies, {"absent", "present"})

\* "async for chunk in response.aiter_bytes(...)" is over: every chunk of the body
\* has been taken.
MutBodyOverAnytime(c) == TRUE
BodyOver(c) == c.downloaded = Len(c.body)

\* Lines 76-77: "if pbar_callback: await pbar_callback(downloaded, total_size,
\* filename)"; the callback returns. filename is the name of the final file.
MutProgressChunks(c, n) ==
  IF c.callback
  THEN Append(c.progress, [bytes |-> c.downloaded + 1, total |-> c.total_size,
                           name |-> FinalPath(c.track, c.ext)])
  ELSE c.progress
Progress(c, n) ==
  IF c.callback
  THEN Append(c.progress, [bytes |-> n, total |-> c.total_size,
                           name |-> FinalPath(c.track, c.ext)])
  ELSE c.progress

\* Lines 73-77: one chunk arrives and is written through the handle, to the file it
\* was opened on wherever that file is now; "downloaded" grows by the chunk's length.
RecvChunk(p) ==
  /\ pc[p] = "streaming"
  /\ ~BodyOver(call[p])
  /\ LET c == call[p]
         chunk == c.body[c.downloaded + 1]
         final == FinalPath(c.track, c.ext)
         path == IF c.fh = "tmp" THEN TmpPath(final) ELSE final
     IN /\ audio' = IF c.fh = "unlinked" THEN audio
                    ELSE [audio EXCEPT ![path].chunks = @ + 1]
        /\ call' = [call EXCEPT ![p].downloaded = @ + 1,
                                ![p].bytes = @ + chunk,
                                ![p].progress = Progress(c, c.bytes + chunk)]
  /\ UNCHANGED <<quality, folder, cover_file, thumb_file, pc, ret, hVars, clVars, fnVars>>

\* What an exception raised while the body is read does to the temp file: the
\* context managers close it, nothing removes it.
MutStreamErrorCleansTmp(p) == [audio EXCEPT
        ![TmpPath(FinalPath(call[p].track, call[p].ext))] = NoFile]
TmpAfterStreamError(p) == audio

\* Line 73: the transport fails while the body is read.
StreamError(p) ==
  /\ pc[p] = "streaming"
  /\ audio' = TmpAfterStreamError(p)
  /\ call' = [call EXCEPT ![p].fh = "none", ![p].header = "none", ![p].total_size = 0]
  /\ Raise(p, "stream_transport")
  /\ UNCHANGED <<quality, folder, cover_file, thumb_file, hVars, clVars, fnVars>>

\* A thumbnail step that left a thumb.jpg it found where it was.
MutStaleThumbKept(found) == found

\* Lines 80-83: what is left of a thumb.jpg found in the folder, before
\* create_thumbnail is called: it is removed. (os.remove is taken to succeed on a file
\* of a folder the process made; the except clause around it covers a file that is
\* gone already.)
StaleThumb(found) == FALSE

\* Lines 73-95: the body ends and the temp file is closed. A thumb.jpg found in the
\* folder is removed, create_thumbnail makes a new one from the cover (None without a
\* cover, or when the image library or the write fails), and the writer is started in
\* a thread.
StreamEnd(p) ==
  /\ pc[p] = "streaming"
  /\ BodyOver(call[p])
  /\ \E pil_ok \in BOOLEAN :
       LET can == call[p].cover_path /\ cover_file # 0 /\ folder
           made == can /\ pil_ok
       IN /\ thumb_file' = (made \/ StaleThumb(thumb_file))
          /\ call' = [call EXCEPT ![p].thumb_path = made,
                                  ![p].fh = "none",
                                  ![p].header = "none",
                                  ![p].total_size = 0,
                                  ![p].writer = Writer(call[p].is_mp3),
                                  ![p].n_thumb_rm = @ + (IF thumb_file THEN 1 ELSE 0),
                                  ![p].n_thumb_gen = @ + (IF made THEN 1 ELSE 0),
                                  ![p].n_tag = @ + 1]
  /\ pc' = [pc EXCEPT ![p] = "tagging"]
  /\ UNCHANGED <<quality, folder, cover_file, audio, ret, hVars, clVars, fnVars>>

\* What download_track does when the writer raises: nothing catches it.
TagFailurePropagates(res) == res # "ok"

\* How the writer may end before it touches the final name: without the temp file
\* FLAC(filename) / MP3(filename) raises.
TagOutcomes(tmp) ==
  IF audio[tmp].ex THEN {"ok", "fail_read", "fail_save"} ELSE {"fail_read"}

\* download_track lines 97-108, once the writer has returned.
Returned(p, final) ==
  /\ pc' = [pc EXCEPT ![p] = "returned"]
  /\ ret' = [ret EXCEPT ![p] =
               [NoRet EXCEPT !.kind = "triple", !.path = final,
                             !.cover = call[p].cover_path,
                             !.thumb = call[p].thumb_path]]

\* os.rename(filename, final_name)
Rename(files, tmp, final) == [files EXCEPT ![final] = files[tmp], ![tmp] = NoFile]

\* Lines 92-108 with tag_flac / tag_mp3, which run in a worker thread beside the event
\* loop: the writer reads the temp file, sets the fields and saves; it may raise on
\* reading or on saving, and the temp file stays where it is. With no final-name file
\* in the way it renames and download_track returns; a final-name file is removed
\* first (lines 106 / 139), the rename being a later system call.
TagDone(p) ==
  /\ pc[p] = "tagging"
  /\ LET final == FinalPath(call[p].track, call[p].ext)
         tmp == TmpPath(final)
     IN \E res \in TagOutcomes(tmp) :
          LET calls == [call EXCEPT ![p].tag_result = res]
              saved == [audio EXCEPT ![tmp].tagged = TRUE]
          IN IF TagFailurePropagates(res)
             THEN /\ call' = calls
                  /\ UNCHANGED audio
                  /\ Raise(p, "tagging")
             ELSE IF FinalExists(final)
             THEN /\ audio' = [saved EXCEPT ![final] = NoFile]
                  /\ call' = Removed(calls, final)
                  /\ pc' = [pc EXCEPT ![p] = "renaming"]
                  /\ UNCHANGED ret
             ELSE /\ audio' = Rename(saved, tmp, final)
                  /\ call' = Renamed(calls, final)
                  /\ Returned(p, final)
  /\ UNCHANGED <<quality, folder, cover_file, thumb_file, hVars, clVars, fnVars>>

\* tag_flac line 107 / tag_mp3 line 140, after a final-name file was removed: the
\* rename, which raises when the temp file is no longer there.
TagRename(p) ==
  /\ pc[p] = "renaming"
  /\ LET final == FinalPath(call[p].track, call[p].ext)
         tmp == TmpPath(final)
     IN IF audio[tmp].ex
        THEN /\ audio' = Rename(audio, tmp, final)
             /\ call' = Renamed(call, final)
             /\ Returned(p, final)
        ELSE /\ call' = [call EXCEPT ![p].tag_result = "fail_rename"]
             /\ UNCHANGED audio
             /\ Raise(p, "tagging")
  /\ UNCHANGED <<quality, folder, cover_file, thumb_file, hVars, clVars, fnVars>>

\* ------------------------------------------------------------- entry points
\* The caller has taken the result or the exception: the call's frame is gone.
EndCall(p) ==
  /\ pc' = [pc EXCEPT ![p] = "idle"]
  /\ call' = [call EXCEPT ![p] = NoCall]
  /\ ret' = [ret EXCEPT ![p] = NoRet]

\* What a finished download_track call hands to its caller.
Result(p) == [track |-> call[p].track, kind |-> ret[p].kind]

\* Some caller of the core calls download_track.
TrackStart(p) ==
  /\ hpc[p] \in {"idle", "done"}
  /\ nreq < MaxRequests
  /\ nreq' = nreq + 1
  /\ \E t \in Tracks :
       /\ handler' = [handler EXCEPT ![p] = "track"]
       /\ hpc' = [hpc EXCEPT ![p] = "in_call"]
       /\ hst' = [hst EXCEPT ![p] = [NoHst EXCEPT !.track = t, !.attempts[t] = 1]]
       /\ BeginCall(p, t)
  /\ UNCHANGED <<quality, fsVars, clVars, fnVars>>

\* The bare call ends; its result or exception is the caller's.
TrackReturn(p) ==
  /\ handler[p] = "track"
  /\ hpc[p] = "in_call"
  /\ pc[p] \in {"returned", "raised"}
  /\ hpc' = [hpc EXCEPT ![p] = "done"]
  /\ hst' = [hst EXCEPT
        ![p].outcome = IF pc[p] = "returned" THEN "ok" ELSE "raised",
        ![p].results = IF pc[p] = "returned" THEN Append(@, Result(p)) ELSE @,
        ![p].failed = IF pc[p] = "raised" THEN Append(@, call[p].track) ELSE @]
  /\ EndCall(p)
  /\ UNCHANGED <<quality, fsVars, handler, nreq, clVars, fnVars>>

\* download_album lines 139-141: the album is requested, with or without a
\* pbar_callback.
AlbumStart(p) ==
  /\ hpc[p] \in {"idle", "done"}
  /\ nreq < MaxRequests
  /\ nreq' = nreq + 1
  /\ handler' = [handler EXCEPT ![p] = "album"]
  /\ hpc' = [hpc EXCEPT ![p] = "await_album"]
  /\ \E callback \in BOOLEAN :
       hst' = [hst EXCEPT ![p] = [NoHst EXCEPT !.callback = callback]]
  /\ UNCHANGED <<quality, fsVars, dtVars, clVars, fnVars>>

\* callback_track, handle_qobuz_url, handle_download_album up to their first await:
\* the user's quality is stored in the shared downloader.
BotStartOf(p, handlers, qualities, tracks) ==
  /\ hpc[p] \in {"idle", "done"}
  /\ nreq < MaxRequests
  /\ nreq' = nreq + 1
  /\ \E h \in handlers, q \in qualities, t \in tracks :
       /\ quality' = q
       /\ handler' = [handler EXCEPT ![p] = h]
       /\ hst' = [hst EXCEPT ![p] =
                    [NoHst EXCEPT !.track = IF h = "bot_track" THEN t ELSE 0,
                                  !.user_q = q]]
  /\ hpc' = [hpc EXCEPT ![p] = "started"]
  /\ UNCHANGED <<fsVars, dtVars, clVars, fnVars>>

\* The same, for any handler, any stored quality and any track.
BotStart(p) == BotStartOf(p, BotHandlers, Qualities, Tracks)

\* The status message is out: a track handler calls download_track(track_id), an
\* album handler requests the album.
BotBegin(p) ==
  /\ hpc[p] = "started"
  /\ IF handler[p] = "bot_track"
     THEN /\ hpc' = [hpc EXCEPT ![p] = "in_call"]
          /\ hst' = [hst EXCEPT ![p].attempts[hst[p].track] = 1]
          /\ BeginCall(p, hst[p].track)
     ELSE /\ hpc' = [hpc EXCEPT ![p] = "await_album"]
          /\ UNCHANGED <<hst, dtVars>>
  /\ UNCHANGED <<quality, fsVars, handler, nreq, clVars, fnVars>>

\* album/get answers. download_album lets a failure propagate; the bot handlers
\* catch it. Otherwise the loop starts with the first track: download_album passes
\* album_data, folder_path and its pbar_callback, the bot handlers album_data only.
RecvAlbum(p) ==
  /\ hpc[p] = "await_album"
  /\ \E ok \in BOOLEAN :
       IF ok
       THEN /\ hpc' = [hpc EXCEPT ![p] = "in_call"]
            /\ hst' = [hst EXCEPT ![p].got_album = TRUE, ![p].idx = 1,
                                  ![p].attempts[1] = 1]
            /\ BeginCallWith(p, 1, hst[p].callback)
       ELSE /\ hpc' = [hpc EXCEPT ![p] =
                         IF handler[p] = "album" THEN "done" ELSE "finishing"]
            /\ hst' = [hst EXCEPT ![p].outcome =
                         IF handler[p] = "album" THEN "raised" ELSE "error"]
            /\ UNCHANGED dtVars
  /\ UNCHANGED <<quality, fsVars, handler, nreq, clVars, fnVars>>

\* download_album lines 151-157: the index of the next track the loop downloads after
\* track idx was downloaded or raised; 0 when the loop is over.
MutAlbumStopsOnError(idx, raised) ==
  IF raised THEN 0 ELSE IF idx < NumTracks THEN idx + 1 ELSE 0
AlbumNext(idx, raised) == IF idx < NumTracks THEN idx + 1 ELSE 0

\* download_album lines 151-159: a track's call ends. Its result is appended or its
\* failure logged, and the loop goes on; after the last track the list is returned.
AlbumStep(p) ==
  /\ handler[p] = "album"
  /\ hpc[p] = "in_call"
  /\ pc[p] \in {"returned", "raised"}
  /\ LET raised == pc[p] = "raised"
         next == AlbumNext(hst[p].idx, raised)
         h1 == [hst[p] EXCEPT
                  !.results = IF raised THEN @ ELSE Append(@, Result(p)),
                  !.logged = IF raised THEN Append(@, call[p].track) ELSE @,
                  !.failed = IF raised THEN Append(@, call[p].track) ELSE @]
     IN IF next # 0
        THEN /\ hst' = [hst EXCEPT ![p] = [h1 EXCEPT !.idx = next, !.attempts[next] = @ + 1]]
             /\ BeginCallWith(p, next, hst[p].callback)
             /\ UNCHANGED hpc
        ELSE /\ hst' = [hst EXCEPT ![p] = [h1 EXCEPT !.outcome = "ok"]]
             /\ hpc' = [hpc EXCEPT ![p] = "done"]
             /\ EndCall(p)
  /\ UNCHANGED <<quality, fsVars, handler, nreq, clVars, fnVars>>

\* "file_path, caption, p_info = await downloader.download_track(...)": unpacking
\* works on the triple; the bare path (a string far longer than three characters)
\* raises ValueError.
Unpacks(r) == r.kind = "triple"

\* The bot handlers, when download_track ends: on a triple folder_to_clean is set and
\* the audio is sent (results lists what was handed to answer_audio); an exception (from the call or from unpacking) goes to the
\* handler's except clause, outside the loop.
BotResult(p) ==
  /\ handler[p] \in BotHandlers
  /\ hpc[p] = "in_call"
  /\ pc[p] \in {"returned", "raised"}
  /\ IF pc[p] = "returned" /\ Unpacks(ret[p])
     THEN /\ hst' = [hst EXCEPT ![p].clean = TRUE,
                                ![p].results = Append(@, Result(p))]
          /\ hpc' = [hpc EXCEPT ![p] = "sending"]
     ELSE /\ hst' = [hst EXCEPT
                ![p].outcome = "error",
                ![p].failed = IF pc[p] = "raised" THEN Append(@, call[p].track) ELSE @]
          /\ hpc' = [hpc EXCEPT ![p] = "finishing"]
  /\ EndCall(p)
  /\ UNCHANGED <<quality, fsVars, handler, nreq, clVars, fnVars>>

\* answer_audio ends. A track handler is done; an album handler goes to the next
\* track or, after the last, to its final message. A failure to send goes to the
\* except clause.
BotSent(p) ==
  /\ handler[p] \in BotHandlers
  /\ hpc[p] = "sending"
  /\ \E ok \in BOOLEAN :
       LET h1 == hst[p]
           next == IF handler[p] = "bot_track" \/ hst[p].idx >= NumTracks
                   THEN 0 ELSE hst[p].idx + 1
       IN IF ~ok
          THEN /\ hst' = [hst EXCEPT ![p].outcome = "error"]
               /\ hpc' = [hpc EXCEPT ![p] = "finishing"]
               /\ UNCHANGED dtVars
          ELSE IF next # 0
          THEN /\ hst' = [hst EXCEPT ![p] = [h1 EXCEPT !.idx = next, !.attempts[next] = @ + 1]]
               /\ hpc' = [hpc EXCEPT ![p] = "in_call"]
               /\ BeginCall(p, next)
          ELSE /\ hst' = [hst EXCEPT ![p] = [h1 EXCEPT !.outcome = "ok"]]
               /\ hpc' = [hpc EXCEPT ![p] = "finishing"]
               /\ UNCHANGED dtVars
  /\ UNCHANGED <<quality, fsVars, handler, nreq, clVars, fnVars>>

\* The finally clause of the bot handlers: shutil.rmtree(folder_to_clean) when it is
\* set and the folder exists.
BotFinish(p) ==
  /\ handler[p] \in BotHandlers
  /\ hpc[p] = "finishing"
  /\ hpc' = [hpc EXCEPT ![p] = "done"]
  /\ IF hst[p].clean /\ folder
     THEN /\ folder' = FALSE
          /\ cover_file' = 0
          /\ thumb_file' = FALSE
          /\ audio' = [a \in AudioPaths |-> NoFile]
          /\ call' = AllRemoved(call)
     ELSE UNCHANGED <<fsVars, call>>
  /\ UNCHANGED <<quality, pc, ret, handler, hst, nreq, clVars, fnVars>>

\* ------------------------------------------------------------- QobuzClient
\* The seed matches of a bundle, in document order, and what base64-decoding each
\* timezone's seed+info+extras (less its last 44 characters) gives: a secret, the
\* empty string, or an exception.
SeedSeqs == UNION {[1..n -> Timezones] : n \in 0..MaxSeeds}
DecodeOutcomes == {"ok", "empty", "fail"}

\* The timezones matched in a bundle.
Matched(seeds) == {seeds[i] : i \in 1..Len(seeds)}

\* One decoding outcome for each matched timezone, "absent" for the others.
DecodingsOf(seeds) ==
  {d \in [Timezones -> DecodeOutcomes \cup {"absent"}] :
     \A tz \in Timezones : (d[tz] = "absent") <=> (tz \notin Matched(seeds))}

\* The keys of secrets_raw after the loop of lines 80-82: each timezone once, at the
\* place of its first match.
RECURSIVE FirstSeen(_)
FirstSeen(seeds) ==
  IF seeds = <<>> THEN <<>>
  ELSE LET front == FirstSeen(SubSeq(seeds, 1, Len(seeds) - 1))
           last == seeds[Len(seeds)]
       IN IF \E i \in 1..Len(front) : front[i] = last THEN front ELSE Append(front, last)

\* A scrape that kept the keys in document order.
MutNoReorder(keys) == keys

\* Lines 84-86: move_to_end(keypairs[1][0], last=False) brings the second key to the front.
SecondToFront(keys) ==
  IF Len(keys) > 1
  THEN <<keys[2], keys[1]>> \o SubSeq(keys, 3, Len(keys))
  ELSE keys

\* Lines 96-102: one secret per timezone, in that order; a failed decode is dropped.
RECURSIVE Decoded(_, _)
Decoded(keys, dec) ==
  IF keys = <<>> THEN <<>>
  ELSE LET rest == Decoded(Tail(keys), dec)
           tz == Head(keys)
       IN IF dec[tz] = "fail" THEN rest
          ELSE <<IF dec[tz] = "ok" THEN SecretOf(tz) ELSE "">> \o rest

ScrapedSecrets(seeds, dec) == Decoded(SecondToFront(FirstSeen(seeds)), dec)

\* A scrape that appended to the list it found.
MutSecretsAccumulate(old, new) == old \o new

\* Line 96: self.secrets = [] before the decoded secrets are appended: the list a
\* scrape leaves holds the scraped secrets alone.
FreshSecrets(old, new) == new

\* Lines 126-127: the next position after i holding a non-empty secret, 0 when the
\* loop is over.
NextSecret(secrets, i) ==
  LET later == {j \in 1..Len(secrets) : j > i /\ secrets[j] # ""}
  IN IF later = {} THEN 0 ELSE CHOOSE j \in later : \A k \in later : j <= k

\* The answers a request can get: any of them, or, from a snapshot server that has
\* answered this request before, that answer again.
Replayed(given, all) == IF cnet.snapshot /\ given # {} THEN given ELSE all
Remember(given, ans) == IF cnet.snapshot THEN {ans} ELSE given

\* A client that sent no header.
MutNoHeaders(c) == [app_id |-> "", token |-> ""]

\* The headers self.client attaches to every request it sends (set at lines 39, 43,
\* 104 and 119).
RequestHeaders(c) == [app_id |-> c.hdr_app_id, token |-> c.hdr_token]

\* A request leaving through self.client (lines 113, 137, 167).
Sent(c, kind) ==
  LET h == RequestHeaders(c)
  IN [kind |-> kind, hdr_app_id |-> h.app_id, hdr_token |-> h.token,
      app_id |-> c.app_id, token |-> c.user_auth_token]

\* An operation starts: what is known of the previous one is forgotten.
Begin(c, who) ==
  [c EXCEPT !.error = "", !.pidx = 0, !.find = "none", !.pre_active = "",
            !.probed = <<>>, !.answers = <<>>, !.warned = 0,
            !.caller = who, !.runs = @ + 1]
Fresh(n) == [NoNet EXCEPT !.snapshot = n.snapshot, !.memo = n.memo, !.first = n.first]

\* The operation ran discovery: _scrape_bundle, and _find_active_secret unless
\* _scrape_bundle raised.
RanDiscovery(c, n) ==
  /\ n.login_page > 0
  /\ n.login = 0
  /\ c.find # "none" \/ c.error \in {"request_error", "no_bundle_url", "no_app_id"}

\* An operation ends: it returned ("ready") or raised ("failed").
Finish(c, n, how) ==
  /\ cl' = c
  /\ cpc' = how
  /\ cnet' = IF n.snapshot /\ RanDiscovery(c, n) /\ n.first = {}
             THEN [n EXCEPT !.first = {[run |-> c.runs, secrets |-> c.secrets,
                                        active_secret |-> c.active_secret]}]
             ELSE n

\* The operation raises.
Fail(c, n, why) == Finish([c EXCEPT !.error = why], n, "failed")

\* A search that returned when nothing was accepted.
MutExhaustedReturns(c, n) == Finish([c EXCEPT !.find = "raised", !.pidx = 0], n, "ready")

\* Line 151: the loop is over and nothing was accepted.
Exhausted(c, n) == Fail([c EXCEPT !.find = "raised", !.pidx = 0], n, "no_valid_secret")

\* Lines 129-137: the probe of the secret at position j is sent.
SendProbe(c, n, j) ==
  /\ cl' = [c EXCEPT !.pidx = j, !.probed = Append(@, j)]
  /\ cpc' = "await_probe"
  /\ cnet' = [n EXCEPT !.probe = @ + 1, !.last = Sent(c, "probe")]

\* _find_active_secret lines 123-137, from a client c: the first probe is sent, or
\* the loop has nothing to try and line 151 raises.
FindActiveSecret(c, n) ==
  LET c1 == [c EXCEPT !.find = "running", !.pre_active = c.active_secret,
                      !.probed = <<>>, !.answers = <<>>, !.warned = 0]
      j == NextSecret(c1.secrets, 0)
  IN IF j = 0 THEN Exhausted(c1, n) ELSE SendProbe(c1, n, j)

\* login lines 107-113: the user/login request is sent.
SendLogin(c, n) ==
  /\ cl' = c
  /\ cpc' = "await_login"
  /\ cnet' = [n EXCEPT !.login = @ + 1, !.last = Sent(c, "user/login")]

\* A client that tried email and password before the token.
MutLoginFirst(c) == IF c.arg_email THEN "login" ELSE IF c.user_auth_token # "" THEN "token" ELSE "none"

\* The branch of lines 42-53: the token if there is one, else email and password if
\* there are, else neither.
Branch(c) ==
  IF c.user_auth_token # "" THEN "token" ELSE IF c.arg_email THEN "login" ELSE "none"

\* initialize lines 42-54, from a client c, up to the next await.
Credentials(c, n) ==
  IF Branch(c) = "token"
  THEN LET c1 == [c EXCEPT !.hdr_token = c.user_auth_token]
       IN IF c1.active_secret = ""
          THEN FindActiveSecret(c1, n)
          ELSE Finish(c1, n, "ready")
  ELSE IF Branch(c) = "login"
  THEN SendLogin(c, n)
  ELSE IF c.active_secret = ""
       THEN FindActiveSecret(c, n)
       ELSE Finish(c, n, "ready")

\* A scrape that noted the missing match and let initialize go on.
MutParseFailureIgnored(c, n, why) == Credentials([c EXCEPT !.error = why], n)

\* _scrape_bundle lines 63-64 and 73-74: without a bundle URL in the login page, or
\* without an app id in the bundle, it raises, and so does its caller.
ParseFailure(c, n, why) == Fail(c, n, why)

\* __init__, lines 20-32.
Construct ==
  /\ cpc = "new"
  /\ \E email \in BOOLEAN, token \in BOOLEAN, app_id \in BOOLEAN, app_secret \in BOOLEAN :
       cl' = [NoClient EXCEPT
                !.arg_email = email, !.arg_token = token,
                !.arg_app_id = app_id, !.arg_secret = app_secret,
                !.user_auth_token = IF token THEN "supplied" ELSE "",
                !.app_id = IF app_id THEN "configured" ELSE "",
                !.active_secret = IF app_secret THEN ConfiguredSecret ELSE "",
                !.secrets = IF app_secret THEN <<ConfiguredSecret>> ELSE <<>>]
  /\ cpc' = "constructed"
  /\ UNCHANGED <<cnet, dlVars, fnVars>>

\* _scrape_bundle lines 57-59: the login page is requested, by a client of its own.
ScrapeBundle(c, n) ==
  /\ cl' = c
  /\ cpc' = "await_login_page"
  /\ cnet' = [n EXCEPT !.login_page = @ + 1]

\* An operation can start on a client that is not in the middle of one.
Idle == cpc \in {"constructed", "ready", "failed"} /\ cl.runs < MaxRuns

\* initialize, lines 34-40 and on: without an app id or without a secret the login
\* page is requested (_scrape_bundle); with both the app-id header is set and the
\* credentials are looked at.
InitializeStart ==
  /\ Idle
  /\ LET c == Begin(cl, "initialize")
         n == Fresh(cnet)
     IN IF c.app_id = "" \/ c.active_secret = ""
        THEN ScrapeBundle(c, n)
        ELSE Credentials([c EXCEPT !.hdr_app_id = c.app_id], n)
  /\ UNCHANGED <<dlVars, fnVars>>

\* Discovery alone: _scrape_bundle followed by _find_active_secret, as initialize
\* runs them (lines 37 and 47, 53), on a client that may have run them before.
DiscoverStart ==
  /\ Idle
  /\ ScrapeBundle(Begin(cl, "discover"), Fresh(cnet))
  /\ UNCHANGED <<dlVars, fnVars>>

\* _scrape_bundle lines 59-67: the login page answers; with a bundle URL in it the
\* bundle is requested.
RecvLoginPage ==
  /\ cpc = "await_login_page"
  /\ \E resp \in Replayed(cnet.memo.login_page, {"ok", "http_error", "no_bundle_url"}) :
       LET n == [cnet EXCEPT !.memo.login_page = Remember(@, resp)]
       IN IF resp = "ok"
          THEN /\ cnet' = [n EXCEPT !.bundle = @ + 1]
               /\ cpc' = "await_bundle"
               /\ UNCHANGED cl
          ELSE IF resp = "http_error"
          THEN Fail(cl, n, "request_error")
          ELSE ParseFailure(cl, n, "no_bundle_url")
  /\ UNCHANGED <<dlVars, fnVars>>

\* What the bundle request can be answered with: a bundle with its matches, a bundle
\* without an app id, or an error status.
BundleAnswers ==
  UNION {{[resp |-> "ok", seeds |-> s, dec |-> d] : d \in DecodingsOf(s)} : s \in SeedSeqs}
    \cup {[resp |-> r, seeds |-> <<>>, dec |-> [tz \in Timezones |-> "absent"]] :
            r \in {"http_error", "no_app_id"}}

\* After _scrape_bundle: initialize goes on at line 42, discovery alone with
\* _find_active_secret.
AfterScrape(c, n) ==
  IF c.caller = "initialize" THEN Credentials(c, n) ELSE FindActiveSecret(c, n)

\* _scrape_bundle lines 67-105, then its caller: the bundle answers. The app id and
\* the candidate secrets are taken from it; active_secret is not touched.
RecvBundle ==
  /\ cpc = "await_bundle"
  /\ \E b \in Replayed(cnet.memo.bundle, BundleAnswers) :
       LET n == [cnet EXCEPT !.memo.bundle = Remember(@, b)]
       IN IF b.resp = "ok"
          THEN AfterScrape([cl EXCEPT !.app_id = "scraped",
                                      !.secrets = FreshSecrets(@, ScrapedSecrets(b.seeds, b.dec)),
                                      !.hdr_app_id = "scraped"], n)
          ELSE IF b.resp = "http_error"
          THEN Fail(cl, n, "request_error")
          ELSE ParseFailure(cl, n, "no_app_id")
  /\ UNCHANGED <<dlVars, fnVars>>

\* What user/login can be answered with: a status and a body, or no answer at all.
LoginAnswers ==
  {[status |-> s, body |-> b] : s \in {"200", "401"}, b \in {"token", "no_token", "not_json"}}
    \cup {[status |-> "none", body |-> "transport_error"]}

\* A login that took a JSON answer without a token for one with a token.
MutTokenOptional(body) == body \in {"token", "no_token"}

\* Line 115: "user_auth_token" in data.
HasToken(body) == body = "token"

\* login lines 113-121: user/login answers. The status is not looked at: without a
\* token in the body login raises; with one the token is stored and
\* _find_active_secret is called.
RecvLogin ==
  /\ cpc = "await_login"
  /\ \E ans \in Replayed(cnet.memo.login, LoginAnswers) :
       LET n == [cnet EXCEPT !.memo.login = Remember(@, ans), !.login_status = ans.status,
                             !.login_body = ans.body]
       IN IF HasToken(ans.body)
          THEN FindActiveSecret([cl EXCEPT !.user_auth_token = "login", !.hdr_token = "login"], n)
          ELSE Fail(cl, n, IF ans.body = "no_token" THEN "login_failed" ELSE "request_error")
  /\ UNCHANGED <<dlVars, fnVars>>

\* The statuses a probe can end with; "error" is an exception from the request.
ProbeStatuses == {"200", "403", "401", "400", "error"}

\* A search that took a 400 for an acceptance too.
MutAcceptsBadRequest(status) == status \in {"200", "403", "400"}

\* A search that accepted a 200 alone.
MutAcceptsOnly200(status) == status = "200"

\* Line 142: the answers that make the probed secret the active one.
Accepts(status) == status \in {"200", "403"}

\* A search that logged nothing.
MutWarnSilently(c) == c

\* Lines 146-147: a 401 is logged, and nothing else.
Warn(c) == [c EXCEPT !.warned = @ + 1]

\* _find_active_secret lines 137-151: a probe answers. 200 and 403 make its secret
\* the active one and end the search; anything else moves to the next secret, and
\* after the last line 151 raises.
RecvProbe ==
  /\ cpc = "await_probe"
  /\ \E status \in Replayed(cnet.memo.probe[cl.secrets[cl.pidx]], ProbeStatuses) :
       LET n == [cnet EXCEPT !.memo.probe[cl.secrets[cl.pidx]] = Remember(@, status)]
           c == [cl EXCEPT !.answers = Append(@, status)]
           c1 == IF status = "401" THEN Warn(c) ELSE c
           j == NextSecret(cl.secrets, cl.pidx)
       IN IF Accepts(status)
          THEN Finish([c EXCEPT !.active_secret = cl.secrets[cl.pidx], !.pidx = 0,
                                !.find = "found"], n, "ready")
          ELSE IF j # 0
          THEN SendProbe(c1, n, j)
          ELSE Exhausted(c1, n)
  /\ UNCHANGED <<dlVars, fnVars>>

\* The request()-based methods, by endpoint (lines 171-206).
Endpoints == {"search", "album/get", "track/get", "artist/get",
              "artist/getReleasesList", "track/getFileUrl"}
ApiStatuses == {"200", "401", "500"}

\* request line 167, called by one of the methods of lines 171-206 once initialize
\* has returned: one GET through self.client.
ApiCall ==
  /\ cpc = "ready"
  /\ cl.caller = "initialize"
  /\ \E e \in Endpoints :
       cnet' = [cnet EXCEPT !.api = [endpoint |-> e, sent |-> 1, status |-> "",
                                     outcome |-> "none"],
                            !.last = Sent(cl, e)]
  /\ cpc' = "await_api"
  /\ UNCHANGED <<cl, dlVars, fnVars>>

\* Line 168: raise_for_status raises unless the status is a success.
RaisesForStatus(status) == status # "200"

\* request lines 167-169: the answer arrives; the call raises or returns the body.
ApiResponse ==
  /\ cpc = "await_api"
  /\ \E status \in ApiStatuses :
       cnet' = [cnet EXCEPT !.api.status = status,
                            !.api.outcome = IF RaisesForStatus(status)
                                            THEN "raised" ELSE "returned"]
  /\ cpc' = "ready"
  /\ UNCHANGED <<cl, dlVars, fnVars>>

\* ------------------------------------------------------ _generate_sig
\* str(x) of a number, inside an f-string.
Str(n) == ToString(n)

\* hashlib.md5(...).hexdigest(): the digest of a string, kept as the string it is the
\* digest of.
Md5(text) == <<"md5", text>>

\* Lines 156-161: the string that is hashed.
MutNoTemplate(entity, method, params, ts, secret) ==
  entity \o method \o Str(ts) \o secret
RSig(entity, method, params, ts, secret) ==
  IF method = "getFileUrl"
  THEN "trackgetFileUrlformat_id" \o Str(params.format_id) \o "intentstreamtrack_id"
         \o Str(params.track_id) \o Str(ts) \o secret
  ELSE IF method = "getUserFavorites"
  THEN "favoritegetUserFavorites" \o Str(ts) \o secret
  ELSE entity \o method \o Str(ts) \o secret

\* Lines 153-164, the clock reading ts.
GenerateSig(entity, method, params, secret, ts) ==
  [ts |-> ts, sig |-> Md5(RSig(entity, method, params, ts, secret))]

\* The arguments _generate_sig is called with, and the seconds the clock may show.
SigEntities == {"track", "album"}
SigMethods == {"getFileUrl", "getUserFavorites", "get"}
SigParams == [track_id : {1, 5966783}, format_id : {5, 27}]
SigSecrets == {SecretOf("a"), ConfiguredSecret}
Clock == {1700000000, 1700000001}

\* _generate_sig is called and returns.
Sign ==
  \E e \in SigEntities, m \in SigMethods, ps \in SigParams, sec \in SigSecrets,
     ts \in Clock :
    LET this == [entity |-> e, method |-> m, params |-> ps, secret |-> sec,
                 ts |-> ts, out |-> GenerateSig(e, m, ps, sec, ts)]
    IN /\ signed' = IF signed = <<>> THEN <<this>> ELSE <<signed[Len(signed)], this>>
       /\ UNCHANGED <<dlVars, clVars, info, art>>

\* ------------------------------------------------------ get_audio_info
\* f"{sr_khz:g}" for sr_khz = sr_hz / 1000: the kilohertz, with the fraction only when
\* there is one and without trailing zeros.
Khz(sr_hz) ==
  LET whole == sr_hz \div 1000
      frac == sr_hz % 1000
      d1 == frac \div 100
      d2 == (frac \div 10) % 10
      d3 == frac % 10
  IN IF frac = 0 THEN Str(whole)
     ELSE IF d2 = 0 /\ d3 = 0 THEN Str(whole) \o "." \o Str(d1)
     ELSE IF d3 = 0 THEN Str(whole) \o "." \o Str(d1) \o Str(d2)
     ELSE Str(whole) \o "." \o Str(d1) \o Str(d2) \o Str(d3)

\* Line 167: is_hires.
MutHiResFrom48000(bt_depth, sr_hz) == bt_depth > 16 \/ sr_hz >= 48000
IsHiRes(bt_depth, sr_hz) == bt_depth > 16 \/ sr_hz > 48000

\* Lines 160-189. A file is what mutagen reads from it (bits per sample, sample rate,
\* bitrate, length in seconds) and its size in bytes. The result is the string, as the
\* words it is made of; it is "", no word at all, when an exception was caught: the
\* fallback bitrate divides by the length.
GetAudioInfo(file) ==
  IF file.ext = ".flac"
  THEN LET bt_depth == file.bits
           sr_hz == file.rate
           quality_type == IF IsHiRes(bt_depth, sr_hz) THEN "Hi-Res" ELSE "CD"
       IN IF file.bitrate > 0
          THEN <<"FLAC", quality_type, Str(bt_depth) \o "-Bit", "/", Khz(sr_hz), "kHz",
                 "/", Str(file.bitrate \div 1000), "kbps">>
          ELSE IF file.length = 0
          THEN <<>>
          ELSE <<"FLAC", quality_type, Str(bt_depth) \o "-Bit", "/", Khz(sr_hz), "kHz",
                 "/", Str((file.size * 8) \div (file.length * 1000)), "kbps">>
  ELSE <<"MP3", Str(file.bitrate \div 1000), "kbps">>

\* The files get_audio_info is called on: .flac and .mp3, of a few bit depths and
\* sample rates; mutagen reports a FLAC's bitrate as 0 when its length is 0, and a
\* bitrate of 0 too for some FLACs of known length.
AudioFiles ==
  {f \in [ext : Exts, bits : {16, 24, 32},
          rate : {44100, 48000, 88200, 96000, 176400, 192000},
          bitrate : {0, 320000, 900000}, length : {0, 240},
          size : {9600000, 27000000}] :
     /\ f.length = 0 => f.bitrate = 0
     /\ f.ext = ".mp3" => f.bits = 16 /\ f.rate = 44100 /\ f.bitrate > 0 /\ f.length > 0}

\* get_audio_info(file_path) is called and returns.
AudioInfo ==
  \E f \in AudioFiles :
    /\ info' = [called |-> TRUE, file |-> f, out |-> GetAudioInfo(f)]
    /\ UNCHANGED <<dlVars, clVars, signed, art>>

\* ------------------------------------------------------ cover embedding
\* metadata_utils.py line 12.
FLAC_MAX_BLOCKSIZE == 16777215

\* The picture a writer attaches: type 3, image/jpeg, the bytes of the cover file.
CoverPicture == "cover"

\* The pictures an audio file may carry when a writer opens it, in the order they are
\* attached: what the host sent, or what an earlier tagging pass left.
Attached == {"front", "earlier_cover"}
PictureLists == UNION {[1..n -> Attached] : n \in 0..MaxPictures}

\* A writer that attached the cover to what it found.
MutEmbedAppends(cover, pictures) ==
  IF ~cover.isfile THEN pictures ELSE Append(pictures, CoverPicture)

\* embed_flac_img, lines 52-70: the pictures of the FLAC object after the call. Without
\* a cover file, or with one above the block size, it returns at once; otherwise it
\* clears the pictures and adds the cover, unless reading the cover raises, which is
\* caught and logged.
EmbedFlacImg(cover, pictures) ==
  IF ~cover.isfile THEN pictures
  ELSE IF cover.size > FLAC_MAX_BLOCKSIZE THEN pictures
  ELSE IF cover.readable THEN <<CoverPicture>>
  ELSE <<>>

\* embed_id3_img, lines 72-81: the APIC frames of the ID3 object after the call.
EmbedId3Img(cover, pictures) ==
  IF ~cover.isfile THEN pictures
  ELSE IF cover.readable THEN <<CoverPicture>>
  ELSE <<>>

\* tag_flac lines 102-103 and tag_mp3 lines 135-136: "if cover_path:" the writer's
\* embedding function is called. What is saved carries these pictures.
TagPictures(writer, cover, pictures) ==
  IF ~cover.path THEN pictures
  ELSE IF writer = "tag_flac" THEN EmbedFlacImg(cover, pictures)
  ELSE EmbedId3Img(cover, pictures)

\* The cover a writer is given: cover_path is a path or None; the path names a file or
\* not; the file's size; whether it can be read.
Covers ==
  {c \in [path : BOOLEAN, isfile : BOOLEAN,
          size : {50000, FLAC_MAX_BLOCKSIZE, FLAC_MAX_BLOCKSIZE + 1},
          readable : BOOLEAN] :
     ~c.path => ~c.isfile}

\* A writer runs on an audio file, up to its save.
TagArt ==
  \E w \in {"tag_flac", "tag_mp3"}, c \in Covers, pics \in PictureLists :
    /\ art' = [called |-> TRUE, writer |-> w, cover |-> c, before |-> pics,
               after |-> TagPictures(w, c, pics)]
    /\ UNCHANGED <<dlVars, clVars, signed, info>>

\* ------------------------------------------------------------ specification
\* The steps of download_track.
DownloadStep(p) ==
  \/ RecvTrack(p)
  \/ RecvFileUrl(p)
  \/ RecvCover(p)
  \/ RecvStreamHead(p)
  \/ RecvChunk(p)
  \/ StreamError(p)
  \/ StreamEnd(p)
  \/ TagDone(p)

\* The catalogue and the audio host of the runs with two users: the album's image
\* entries are both URLs, a body is one full chunk and comes with its length.
PlainImages == {[large |-> "url", small |-> "url"]}
PlainBodies == {<<ChunkSize>>}

\* The steps of download_track against that catalogue.
PlainDownloadStep(p) ==
  \/ RecvTrack(p)
  \/ RecvFileUrlOf(p, PlainImages)
  \/ RecvCover(p)
  \/ RecvStreamHeadOf(p, PlainBodies, {"present"})
  \/ RecvChunk(p)
  \/ StreamError(p)
  \/ StreamEnd(p)
  \/ TagDone(p)
  \/ TagRename(p)

\* The core alone, one request at a time: download_track and download_album called
\* on a downloader whose quality is the constructor's.
Next ==
  \E p \in SeqProcs :
    \/ TrackStart(p)
    \/ TrackReturn(p)
    \/ AlbumStart(p)
    \/ RecvAlbum(p)
    \/ AlbumStep(p)
    \/ DownloadStep(p)

Spec == Init /\ [][Next]_vars

\* The bot's handlers, one request at a time.
NextBot ==
  \E p \in SeqProcs :
    \/ BotStart(p)
    \/ BotBegin(p)
    \/ RecvAlbum(p)
    \/ BotResult(p)
    \/ BotSent(p)
    \/ BotFinish(p)
    \/ DownloadStep(p)

SpecBot == Init /\ [][NextBot]_vars

\* The bot's single-track handler, run by two users at a time: aiogram starts a
\* handler for each update, and the handlers interleave at their awaits. The users
\* ask for the same track, each with a lossy or a lossless quality.
NextConcurrent ==
  \E p \in Procs :
    \/ BotStartOf(p, {"bot_track"}, {5, 6}, {1})
    \/ BotBegin(p)
    \/ BotResult(p)
    \/ BotSent(p)
    \/ BotFinish(p)
    \/ PlainDownloadStep(p)

SpecConcurrent == InitClient /\ [][NextConcurrent]_vars

\* The client: construction, initialize, and the calls made once it has returned.
NextClient ==
  \/ Construct
  \/ InitializeStart
  \/ RecvLoginPage
  \/ RecvBundle
  \/ RecvLogin
  \/ RecvProbe
  \/ ApiCall
  \/ ApiResponse

SpecClient == InitClient /\ [][NextClient]_vars

\* The client against a snapshot server, with discovery run again on its own.
NextDiscovery ==
  \/ Construct
  \/ InitializeStart
  \/ DiscoverStart
  \/ RecvLoginPage
  \/ RecvBundle
  \/ RecvLogin
  \/ RecvProbe

SpecDiscovery == InitSnapshot /\ [][NextDiscovery]_vars

\* _generate_sig, which depends on nothing but its arguments and the clock, called
\* with any arguments.
SpecSign == InitClient /\ [][Sign]_vars

\* get_audio_info, which depends on nothing but the file, called on any file.
SpecAudioInfo == InitClient /\ [][AudioInfo]_vars

\* The cover embedding of the two writers, which depends on nothing but the cover and
\* the pictures of the file, run on any file with any cover.
SpecEmbed == InitClient /\ [][TagArt]_vars

\* ------------------------------------------------------------------ claims
\* The final and temp paths of a call that has chosen its extension.
Final(p) == FinalPath(call[p].track, call[p].ext)
Tmp(p) == TmpPath(Final(p))

\* The call has computed its final path, and a file was there when the call started
\* (with one request at a time: when line 55 looked).
PreExisted(p) == call[p].ext # "" /\ call[p].pre_audio[Final(p)].ex

\* The call has changed nothing on disk.
DiskUntouched(p) ==
  /\ audio = call[p].pre_audio
  /\ cover_file = call[p].pre_cover
  /\ thumb_file = call[p].pre_thumb

\* C1: a download_track call that finds its final file already there has issued no
\* request at all (no track/get, no track/getFileUrl, no cover, no audio stream) and
\* returns that final path.
C1_IdempotentNoNetwork ==
  \A p \in Procs :
    (pc[p] = "returned" /\ PreExisted(p)) =>
      /\ call[p].n_track_get = 0
      /\ call[p].n_file_url = 0
      /\ call[p].n_cover = 0
      /\ call[p].n_stream = 0
      /\ ret[p].path = Final(p)

\* C2: when the final path exists at the check, the call returns without opening an
\* audio stream, creating a temp file, fetching a cover, removing or making a
\* thumbnail or starting a tagger, and every file is as it was.
C2_ShortCircuit ==
  \A p \in Procs :
    PreExisted(p) =>
      /\ pc[p] = "returned"
      /\ ret[p].path = Final(p)
      /\ call[p].n_stream = 0
      /\ call[p].n_tmp_open = 0
      /\ call[p].n_cover = 0
      /\ call[p].n_thumb_rm = 0
      /\ call[p].n_thumb_gen = 0
      /\ call[p].n_tag = 0
      /\ DiskUntouched(p)

C2_Witness ==
  \E p \in Procs : pc[p] = "returned" /\ PreExisted(p) /\ audio[Final(p)].tagged

\* C3: every successful return of download_track is the triple (path, caption,
\* player metadata), so unpacking it into three parts works.
C3_ReturnsTriple ==
  \A p \in Procs : pc[p] = "returned" => Unpacks(ret[p])

\* The tracks of a list of results, in the list's order.
TracksOf(results) == [i \in 1..Len(results) |-> results[i].track]
\* The album's tracks in catalog order, less those in the sequence f.
CatalogLess(f) ==
  SelectSeq([i \in 1..NumTracks |-> i], LAMBDA t : \A i \in 1..Len(f) : f[i] # t)

\* C4: once the album is fetched download_album never raises; when it returns, every
\* track was attempted exactly once, one failure is logged for each track whose
\* download_track raised, and the results are those of the other tracks in catalog
\* order (N - |F| of them).
C4_PartialAlbum ==
  \A p \in Procs :
    (handler[p] = "album" /\ hst[p].got_album) =>
      /\ hst[p].outcome # "raised"
      /\ \A t \in Tracks : hst[p].attempts[t] <= 1
      /\ hpc[p] = "done" =>
           /\ hst[p].outcome = "ok"
           /\ \A t \in Tracks : hst[p].attempts[t] = 1
           /\ hst[p].logged = hst[p].failed
           /\ Len(hst[p].results) = NumTracks - Len(hst[p].failed)
           /\ TracksOf(hst[p].results) = CatalogLess(hst[p].failed)

C4_Witness ==
  \E p \in Procs :
    /\ handler[p] = "album" /\ hpc[p] = "done"
    /\ hst[p].failed = <<1>>
    /\ Len(hst[p].results) = NumTracks - 1

\* C5: in every album loop (download_album and the bot's album flows), when the
\* download of a track fails, the tracks after it are still attempted.
C5_FailureSkipsOneTrack ==
  \A p \in Procs :
    (handler[p] \in {"album", "bot_album"} /\ hpc[p] = "done" /\ hst[p].failed # <<>>) =>
      \A t \in Tracks : hst[p].attempts[t] = 1

\* C6: when download_track fails after it made the destination folder, the error
\* reaches the caller, no final-name file was created, and folder, cover.jpg and the
\* temp file written so far are all still there.
C6_NoCleanupOnFailure ==
  \A p \in Procs :
    /\ (pc[p] = "raised" /\ call[p].n_mkdir > 0) =>
         /\ ret[p].kind = "raise"
         /\ folder
         /\ \A a \in AudioPaths \ {Tmp(p)} : audio[a] = call[p].pre_audio[a]
         /\ ~audio[Final(p)].ex
         /\ call[p].n_tmp_open > 0 =>
              audio[Tmp(p)].ex /\ audio[Tmp(p)].chunks = call[p].downloaded
         /\ call[p].n_tmp_open = 0 => audio[Tmp(p)] = call[p].pre_audio[Tmp(p)]
         /\ call[p].pre_cover # 0 => cover_file = call[p].pre_cover
         /\ call[p].cover_path => cover_file # 0
    /\ (handler[p] = "track" /\ hpc[p] = "done" /\ hst[p].failed # <<>>) =>
         hst[p].outcome = "raised"

C6_Witness ==
  \E p \in Procs :
    /\ pc[p] = "raised" /\ ret[p].why = "stream_transport"
    /\ call[p].downloaded > 0
    /\ call[p].cover_path /\ call[p].pre_cover = 0
    /\ audio[Tmp(p)].ex

\* C7: when track/getFileUrl answers without a url, download_track raises after that
\* one request, and has opened no stream, fetched no cover, made no folder and
\* written no file.
C7_NoStreamAvailable ==
  \A p \in Procs :
    call[p].url_resp = "nourl" =>
      /\ pc[p] = "raised"
      /\ ret[p].kind = "raise"
      /\ call[p].n_file_url = 1
      /\ call[p].n_stream = 0
      /\ call[p].n_cover = 0
      /\ call[p].n_mkdir = 0
      /\ call[p].n_tmp_open = 0
      /\ folder = call[p].pre_folder
      /\ DiskUntouched(p)

C7_Witness ==
  \E p \in Procs : call[p].url_resp = "nourl" /\ pc[p] = "raised" /\ ~folder

\* C8: when the writer (tag_flac or tag_mp3) fails, download_track still returns and
\* the audio file is at its final path.
C8_TaggingNonFatal ==
  \A p \in Procs :
    call[p].tag_result \in {"fail_read", "fail_save"} =>
      pc[p] = "returned" /\ audio[Final(p)].ex

\* A candidate URL is absent from album_data["image"].
CandidateAbsent(img) ==
  img.large \in {"null", "nokey"} \/ img.small \in {"null", "nokey"}

\* C9: cover art that cannot be obtained, a candidate URL absent from the metadata
\* included, does not stop the download: a call that got its file URL and found no
\* final file goes on to open the audio stream.
C9_ArtworkNonFatal ==
  \A p \in Procs :
    (pc[p] = "raised" /\ call[p].ext # "" /\ ~PreExisted(p)
       /\ CandidateAbsent(call[p].image)) =>
      call[p].n_stream > 0

\* C10: with both an app id and an app secret supplied, initialize fetches neither
\* the login page nor the bundle and sends no secret probe, whatever token and
\* email/password are supplied.
C10_SkipsDiscovery ==
  (cl.arg_app_id /\ cl.arg_secret) =>
    /\ cnet.login_page = 0
    /\ cnet.bundle = 0
    /\ cnet.probe = 0

\* ------------------------------------------------- claims on the client
\* C11: once active_secret holds a non-empty value, no step of the client assigns it
\* a different value.
C11_ActiveSecretOnce ==
  [][cl.active_secret # "" => cl'.active_secret = cl.active_secret]_vars

\* The positions up to k that hold a non-empty secret.
NonEmptyUpTo(secrets, k) == {j \in 1..k : secrets[j] # ""}

\* The last element of a non-empty sequence.
Last(seq) == seq[Len(seq)]

\* A search that ended by accepting a candidate: the active secret is the candidate
\* probed last, its answer was 200 or 403, no earlier answer was, the probes went up
\* the list, one request each, and the positions probed are exactly those of the
\* given set.
AcceptedFirst(positions) ==
  /\ cl.probed # <<>>
  /\ Len(cl.answers) = Len(cl.probed)
  /\ cnet.probe = Len(cl.probed)
  /\ cl.active_secret = cl.secrets[Last(cl.probed)]
  /\ Last(cl.answers) \in {"200", "403"}
  /\ \A i \in 1..(Len(cl.answers) - 1) : cl.answers[i] \notin {"200", "403"}
  /\ \A i, j \in 1..Len(cl.probed) : i < j => cl.probed[i] < cl.probed[j]
  /\ {cl.probed[i] : i \in 1..Len(cl.probed)} = positions

\* C12 as stated: _find_active_secret makes active the first candidate answered 200
\* or 403, after probing every candidate before it exactly once, in list order, and
\* none after it.
C12_FirstAccepted ==
  cl.find = "found" => AcceptedFirst(1..Last(cl.probed))

\* C12, amended: the same, for the non-empty candidates: every non-empty candidate
\* before the accepted one was probed exactly once, in list order; an empty candidate
\* is passed over without a probe.
C12_FirstAcceptedNonEmpty ==
  cl.find = "found" => AcceptedFirst(NonEmptyUpTo(cl.secrets, Last(cl.probed)))

C12_Witness ==
  /\ cl.find = "found"
  /\ Len(cl.probed) = 2
  /\ \E j \in 1..Last(cl.probed) : cl.secrets[j] = ""

\* C13: a probe answered 401 is logged and changes nothing else: the candidate list
\* and the active secret stay as they were, and the search goes on with the next
\* candidate, or ends as exhausted when there is none, as after any other answer
\* that is not 200 or 403.
C13_UnauthorizedLogged ==
  [][(/\ cpc = "await_probe"
      /\ Len(cl'.answers) = Len(cl.answers) + 1
      /\ Last(cl'.answers) = "401")
     => (/\ cl'.warned = cl.warned + 1
         /\ cl'.secrets = cl.secrets
         /\ cl'.active_secret = cl.active_secret
         /\ LET j == NextSecret(cl.secrets, cl.pidx)
            IN IF j # 0
               THEN cpc' = "await_probe" /\ cl'.pidx = j
               ELSE cpc' = "failed" /\ cl'.error = "no_valid_secret")]_vars

C13_Witness ==
  /\ cl.find = "found"
  /\ cl.warned = 1
  /\ cl.answers[1] = "401"

\* C14: a search in which no probe was answered 200 or 403 (an empty list, 401s and
\* transport errors included) raises and leaves active_secret as it was; a search
\* that returns has accepted a candidate.
C14_ExhaustionFatal ==
  /\ cl.find = "raised" =>
       /\ cpc = "failed"
       /\ cl.error = "no_valid_secret"
       /\ cl.active_secret = cl.pre_active
       /\ \A i \in 1..Len(cl.answers) : cl.answers[i] \notin {"200", "403"}
  /\ (cl.find # "none" /\ cpc \notin {"await_probe", "failed"}) =>
       /\ cl.find = "found"
       /\ cl.answers # <<>>
       /\ Last(cl.answers) \in {"200", "403"}
  /\ (cl.find # "none" /\ cpc = "failed") => cl.find = "raised"

C14_Witness ==
  /\ cl.find = "raised"
  /\ Len(cl.answers) = 2
  /\ cl.answers[1] = "401"
  /\ cl.answers[2] = "error"

\* C15: when the bundle URL or the app id cannot be extracted, initialize raises, and
\* the call has sent no user/login request, no secret probe and no other request
\* through the client.
C15_BundleParseFatal ==
  (cl.caller = "initialize" /\ cl.error \in {"no_bundle_url", "no_app_id"}) =>
    /\ cpc = "failed"
    /\ cnet.login = 0
    /\ cnet.probe = 0
    /\ cnet.api.sent = 0
    /\ cnet.last.kind = "none"

C15_Witness ==
  /\ cl.caller = "initialize"
  /\ cl.error = "no_app_id"
  /\ cl.arg_email
  /\ ~cl.arg_token
  /\ cnet.bundle = 1

\* The timezone encountered second: the second distinct one, or, when every match
\* names the same timezone, that one.
SecondTz(seeds) ==
  IF Len(FirstSeen(seeds)) >= 2 THEN FirstSeen(seeds)[2] ELSE seeds[2]

\* What decoding a timezone's payload gives when it does not fail.
DecodedSecret(tz, dec) == IF dec[tz] = "empty" THEN "" ELSE SecretOf(tz)

\* C16 as stated: for every bundle with at least two (timezone, seed) matches, the
\* candidate list starts with the decoded secret of the timezone encountered second.
C16_SecondFirst ==
  \A b \in cnet.memo.bundle :
    (b.resp = "ok" /\ Len(b.seeds) >= 2) =>
      /\ cl.secrets # <<>>
      /\ cl.secrets[1] = DecodedSecret(SecondTz(b.seeds), b.dec)

\* C16, amended: for every bundle whose matches name at least two timezones and in
\* which the payload of the second timezone decodes, the candidate list starts with
\* that timezone's decoded secret.
C16_SecondFirstDecodable ==
  \A b \in cnet.memo.bundle :
    (/\ b.resp = "ok"
     /\ Len(FirstSeen(b.seeds)) >= 2
     /\ b.dec[FirstSeen(b.seeds)[2]] # "fail") =>
      /\ cl.secrets # <<>>
      /\ cl.secrets[1] = DecodedSecret(FirstSeen(b.seeds)[2], b.dec)

C16_Witness ==
  \E b \in cnet.memo.bundle :
    /\ b.resp = "ok"
    /\ b.seeds = <<"a", "a", "b">>
    /\ b.dec["a"] = "ok"
    /\ b.dec["b"] = "ok"
    /\ cl.secrets = <<"sec_b", "sec_a">>

\* C17: against the same bundle and the same answers, an operation that runs
\* discovery ends with the candidate list and the active secret that the first such
\* operation ended with.
C17_DiscoveryIdempotent ==
  \A f \in cnet.first :
    (cpc \in {"ready", "failed"} /\ RanDiscovery(cl, cnet)) =>
      /\ cl.secrets = f.secrets
      /\ cl.active_secret = f.active_secret

C17_Witness ==
  /\ cl.runs = 2
  /\ cl.caller = "discover"
  /\ cpc = "ready"
  /\ \E f \in cnet.first : f.run = 1
  /\ Len(cl.secrets) = 2
  /\ cl.probed = <<1, 2>>

\* C18: with a token supplied at construction, initialize sends no user/login
\* request and cannot fail on login, whether or not an email and password are
\* supplied; the supplied token is the user-auth-token header of every probe and of
\* the client once initialize has returned; and without a configured secret the
\* first initialize returns only after a probe was accepted.
C18_TokenPrecedence ==
  (cl.arg_token /\ cl.caller = "initialize") =>
    /\ cnet.login = 0
    /\ cl.error # "login_failed"
    /\ cl.user_auth_token = "supplied"
    /\ cnet.last.kind = "probe" => cnet.last.hdr_token = "supplied"
    /\ cpc = "ready" => cl.hdr_token = "supplied"
    /\ (cpc = "ready" /\ ~cl.arg_secret /\ cl.runs = 1) =>
         cl.find = "found" /\ cnet.probe > 0

C18_Witness ==
  /\ cl.arg_token
  /\ cl.arg_email
  /\ ~cl.arg_secret
  /\ cl.caller = "initialize"
  /\ cpc = "ready"
  /\ cl.find = "found"
  /\ cnet.last.hdr_token = "supplied"

\* C19: every request sent through the client carries the app-id header, equal to
\* the client's app id at that moment, and, when the client holds a user auth token
\* at that moment, the user-auth-token header with that token.
C19_Headers ==
  cnet.last.kind # "none" =>
    /\ cnet.last.app_id # ""
    /\ cnet.last.hdr_app_id = cnet.last.app_id
    /\ cnet.last.token # "" => cnet.last.hdr_token = cnet.last.token

C19_Witness ==
  /\ cnet.last.kind = "track/getFileUrl"
  /\ cnet.last.token = "login"
  /\ cnet.last.hdr_token = "login"
  /\ cnet.last.hdr_app_id = "scraped"

\* A login() call is over: initialize took the login branch and has ended.
LoginOver == cnet.login > 0 /\ cpc \in {"ready", "failed"}

\* The request()-based methods: a call that is over has sent one request, and has
\* raised if the answer's status was not 2xx.
RequestCallsRaiseNon2xx ==
  cnet.api.outcome # "none" =>
    /\ cnet.api.sent = 1
    /\ cnet.api.status # "200" => cnet.api.outcome = "raised"

\* C20: a client call (the six request()-based methods and login) sends exactly one
\* HTTP request and raises when the answer's status is not 2xx.
C20_OneRequestRaisesNon2xx ==
  /\ RequestCallsRaiseNon2xx
  /\ LoginOver =>
       /\ cnet.login + cnet.probe = 1
       /\ cnet.login_status # "200" => cpc = "failed"

\* ------------------------------------------------- claims on cover and format
\* The candidates up to position i that are URLs, that is, those the loop requests.
Requested(img, i) == {j \in 1..i : Candidates(img)[j]}

\* A step of _download_cover in call p ends the loop with cover.jpg written.
CoverWritten(p) == pc[p] = "await_cover" /\ cover_file' # cover_file

\* C21 (as stated): _download_cover requests the candidates in the order _org guess,
\* large, small, one GET each: the candidate at position j is the j-th attempt; an
\* answer other than 200 (a transport error too) moves to the next position; the first
\* 200 ends the loop with that candidate's bytes in cover.jpg and the path returned,
\* after exactly j attempts.
C21_CoverFallback ==
  [][\A p \in Procs : pc[p] = "await_cover" =>
       /\ call[p].n_cover = call[p].cidx
       /\ pc'[p] = "await_cover" =>
            /\ call'[p].cidx = call[p].cidx + 1
            /\ call'[p].n_cover = call[p].n_cover + 1
            /\ cover_file' = cover_file
       /\ CoverWritten(p) =>
            /\ cover_file' = call[p].cidx
            /\ call'[p].cover_path
            /\ call'[p].n_cover = call[p].cidx
            /\ pc'[p] = "await_stream"]_vars

\* C21 (amended): the same over the candidates that are non-empty URLs: an empty
\* candidate is passed over without a request, so the candidate at position j is
\* attempt number "non-empty candidates up to j", and a 200 at position j ends the
\* loop after that many attempts.
C21_CoverFallbackNonEmpty ==
  [][\A p \in Procs : pc[p] = "await_cover" =>
       LET img == call[p].image
           asked(i) == Cardinality(Requested(img, i))
       IN /\ call[p].cidx \in 1..3 /\ Candidates(img)[call[p].cidx]
          /\ call[p].n_cover = asked(call[p].cidx)
          /\ pc'[p] = "await_cover" =>
               /\ call'[p].cidx > call[p].cidx
               /\ Requested(img, call'[p].cidx) = Requested(img, call[p].cidx) \cup {call'[p].cidx}
               /\ call'[p].n_cover = call[p].n_cover + 1
               /\ cover_file' = cover_file
          /\ CoverWritten(p) =>
               /\ cover_file' = call[p].cidx
               /\ call'[p].cover_path
               /\ call'[p].n_cover = asked(call[p].cidx)
               /\ pc'[p] = "await_stream"
          /\ (pc'[p] = "await_stream" /\ ~call'[p].cover_path) =>
               /\ Requested(img, 3) = Requested(img, call[p].cidx)
               /\ cover_file' = cover_file]_vars

\* Only the third candidate answered 200: cover.jpg holds its bytes, after 3 attempts.
C21_Witness ==
  \E p \in Procs :
    /\ pc[p] = "await_stream"
    /\ call[p].cover_path
    /\ call[p].pre_cover = 0
    /\ cover_file = 3
    /\ call[p].n_cover = 3

\* A step of call p sends a cover request / writes cover.jpg.
CoverRequest(p) == call'[p].n_cover > call[p].n_cover
CoverWrite(p) ==
  pc[p] = "await_cover" /\ pc'[p] = "await_stream" /\ call'[p].cover_path

\* C22: once cover.jpg exists in the album folder, no download_track call sends a
\* cover request and none writes cover.jpg again.
C22_CoverOnce ==
  [][cover_file # 0 => \A p \in Procs : ~CoverRequest(p) /\ ~CoverWrite(p)]_vars

\* C23: the quality of a request is its own: a download_track call made for a user
\* asks track/getFileUrl for that user's quality and names its file by it, whatever
\* other requests do while the call is suspended.
C23_QualityPerRequest ==
  \A p \in Procs :
    (handler[p] \in BotHandlers /\ hpc[p] = "in_call") =>
      /\ call[p].qsent # 0 => call[p].qsent = hst[p].user_q
      /\ call[p].ext # "" => call[p].ext = Extension(hst[p].user_q)

\* C24: a download_track call gives its file the extension .mp3 exactly when the
\* quality tier is 5 and .flac for 6, 7 and 27, and the writer it starts is the lossy
\* one (tag_mp3) exactly when the extension is .mp3, the lossless one (tag_flac)
\* exactly when it is .flac.
C24_FormatDispatch ==
  \A p \in Procs :
    /\ call[p].ext # "" =>
         /\ call[p].ext = ".mp3" <=> quality = 5
         /\ call[p].ext = ".flac" <=> quality \in {6, 7, 27}
    /\ call[p].writer # "none" =>
         /\ call[p].writer = "tag_mp3" <=> call[p].ext = ".mp3"
         /\ call[p].writer = "tag_flac" <=> call[p].ext = ".flac"

\* A call at quality 5 has delivered an .mp3 through the lossy writer.
C24_Witness ==
  \E p \in Procs :
    /\ quality = 5
    /\ pc[p] = "returned"
    /\ ret[p].kind = "triple"
    /\ ret[p].path = FinalPath(call[p].track, ".mp3")
    /\ call[p].writer = "tag_mp3"

\* ------------------------------------------------- claims on the two functions
RECURSIVE Join(_)
Join(tokens) == IF tokens = <<>> THEN "" ELSE Head(tokens) \o Join(Tail(tokens))

\* The arguments and the clock of a _generate_sig call.
SigInput(s) == <<s.entity, s.method, s.params, s.secret, s.ts>>

\* The string the claim says is hashed.
Canonical(s) ==
  IF s.method = "getFileUrl"
  THEN Join(<<"trackgetFileUrl", "format_id" \o Str(s.params.format_id), "intentstream",
              "track_id" \o Str(s.params.track_id), Str(s.ts), s.secret>>)
  ELSE IF s.method = "getUserFavorites"
  THEN Join(<<"favoritegetUserFavorites", Str(s.ts), s.secret>>)
  ELSE Join(<<s.entity, s.method, Str(s.ts), s.secret>>)

\* C25: with the timestamp fixed, _generate_sig is a function of (entity, method,
\* params, secret): two calls with the same arguments at the same second return the
\* same result; what it hashes is the method's literal template, then the timestamp,
\* then the secret ("trackgetFileUrl", "format_id"+format_id, "intentstream",
\* "track_id"+track_id for getFileUrl), and entity+method+timestamp+secret for a
\* method without a template.
C25_SigCanonical ==
  /\ \A i \in 1..Len(signed) :
       signed[i].out = [ts |-> signed[i].ts, sig |-> Md5(Canonical(signed[i]))]
  /\ \A i, j \in 1..Len(signed) :
       SigInput(signed[i]) = SigInput(signed[j]) => signed[i].out = signed[j].out

\* The same getFileUrl call made twice within one second, and what was hashed.
C25_Witness ==
  /\ Len(signed) = 2
  /\ SigInput(signed[1]) = SigInput(signed[2])
  /\ SigInput(signed[2]) = <<"track", "getFileUrl", [track_id |-> 5966783, format_id |-> 27],
                             "sec_a", 1700000000>>
  /\ signed[2].out.sig =
       Md5("trackgetFileUrlformat_id27intentstreamtrack_id59667831700000000sec_a")

\* The quality label of an audio-info string: its second word, if it has one.
Label(words) == IF Len(words) >= 2 THEN words[2] ELSE ""

\* The thresholds of the claim.
AboveCd(file) == file.bits > 16 \/ file.rate > 48000

C27_TagAfterStream ==
  \A p \in Procs :
    /\ call[p].n_tag > 0 =>
         /\ call[p].downloaded = Len(call[p].body)
         /\ call[p].bytes = Sum(call[p].body)
         /\ call[p].fh = "none"
    /\ pc[p] = "tagging" =>
         /\ audio[Tmp(p)].ex
         /\ audio[Tmp(p)].chunks = Len(call[p].body)
    /\ (pc[p] = "raised" /\ ret[p].why \in {"stream_status", "tmp_open", "stream_transport"}) =>
         call[p].n_tag = 0

\* The writer was started on a body of MaxChunks chunks, all of them in the temp file.
C27_Witness ==
  \E p \in Procs :
    /\ pc[p] = "tagging"
    /\ call[p].n_tag = 1
    /\ Len(call[p].body) = MaxChunks
    /\ audio[Tmp(p)].chunks = MaxChunks

\* C28: finalization replaces a final-name file atomically: while a writer that found
\* a final-name file is between its system calls the file is still there, and a
\* rename that failed has not left it deleted.
C28_AtomicFinalize ==
  \A p \in Procs :
    /\ pc[p] = "renaming" => FinalExists(Final(p))
    /\ (pc[p] = "raised" /\ call[p].tag_result = "fail_rename") => FinalExists(Final(p))

\* Call p is writing the body to its temp file.
Writing(p) == pc[p] = "streaming" /\ call[p].fh = "tmp"

\* Call p, waiting for the audio host, can go on to open its temp file.
CanOpenTmp(p) ==
  ENABLED (RecvStreamHeadOf(p, PlainBodies, {"present"}) /\ pc'[p] = "streaming")

\* C29: two download_track calls with the same final path are not kept apart: a call
\* that has passed the exists check and waits for the audio host can open the temp
\* file whatever the other call is doing, also while the other has it open.
C29_NotExcluded ==
  \A p \in Procs : (pc[p] = "await_stream" /\ folder) => CanOpenTmp(p)

\* Both calls have passed the exists check and have the same temp file open.
C29_Witness ==
  /\ Writing("r1") /\ Writing("r2")
  /\ Tmp("r1") = Tmp("r2")
  /\ audio[Tmp("r1")].ex
  /\ ~FinalExists(Final("r1"))

\* C30: a download_track call that was given a callback invokes it once after each
\* chunk written, with the bytes written so far (the sum of the lengths of the chunks
\* so far: strictly increasing, and after the last chunk the length of the whole body,
\* which is what the temp file holds), with the Content-Length of the response, or 0
\* when there is none, as the total, and with one and the same name; a call without a
\* callback invokes nothing.
C30_ProgressProtocol ==
  \A p \in Procs :
    LET c == call[p]
        log == c.progress
    IN IF ~c.callback THEN log = <<>>
       ELSE /\ Len(log) = c.downloaded
            /\ \A i \in 1..Len(log) :
                 /\ log[i].bytes = Sum(SubSeq(c.body, 1, i))
                 /\ i > 1 => log[i].bytes > log[i - 1].bytes
                 /\ log[i].total = log[1].total
                 /\ log[i].name = Final(p)
                 /\ c.header = "absent" => log[i].total = 0
                 /\ c.header = "present" => log[i].total = Sum(c.body)
            /\ (log # <<>> /\ BodyOver(c)) =>
                 /\ log[Len(log)].bytes = c.bytes
                 /\ c.bytes = Sum(c.body)
                 /\ pc[p] \in {"streaming", "tagging"} =>
                      audio[Tmp(p)].chunks = Len(c.body)

\* The callback was invoked after each of the MaxChunks chunks of a body whose last
\* chunk is a short one, the total being the body's Content-Length.
C30_Witness ==
  \E p \in Procs :
    /\ call[p].callback
    /\ pc[p] = "streaming"
    /\ call[p].header = "present"
    /\ Len(call[p].body) = MaxChunks
    /\ call[p].body[MaxChunks] < ChunkSize
    /\ Len(call[p].progress) = MaxChunks
    /\ call[p].progress[MaxChunks].bytes = Sum(call[p].body)
    /\ call[p].progress[1].total = Sum(call[p].body)

\* ------------------------------------------------- claims on thumbnail and art
\* A step of call p is its thumbnail step (lines 79-89).
ThumbnailStep(p) == pc[p] = "streaming" /\ pc'[p] = "tagging"

AllNew(pictures) == \A i \in 1..Len(pictures) : pictures[i] = CoverPicture

\* The writer went as far as clearing: it was given a cover path that names a file,
\* and, for a FLAC, one within the block size.
Embedding(a) ==
  /\ a.cover.path
  /\ a.cover.isfile
  /\ a.writer = "tag_flac" => a.cover.size <= FLAC_MAX_BLOCKSIZE

\* C32 (as stated): no duplicate embedded art: after any tagging pass of either
\* writer, whether the cover is present, absent or rejected as too large, the file
\* holds at most one attached picture and none that was attached before the pass.
C32_NoDuplicateArt ==
  art.called => (Len(art.after) <= 1 /\ AllNew(art.after))

\* C32 (amended): the pictures are cleared when embedding is attempted, not otherwise:
\* after a pass that was given a cover file (for a FLAC, one within the block size) the
\* file holds the cover alone, or no picture when the cover could not be read; after
\* a pass without a cover, without a cover file, or with a cover too large for a FLAC
\* picture block, it holds the pictures it held before. A file holds more than one
\* picture after a pass only if it held them all before.
C32_ClearedWhenEmbedding ==
  art.called =>
    /\ Embedding(art) =>
         /\ Len(art.after) <= 1 /\ AllNew(art.after)
         /\ art.after = <<CoverPicture>> <=> art.cover.readable
    /\ ~Embedding(art) => art.after = art.before
    /\ Len(art.after) <= 1 \/ art.after = art.before

\* A FLAC that carried two pictures was tagged again with a cover of the largest size
\* that fits: it holds that cover alone.
C32_Witness ==
  /\ art.called
  /\ art.writer = "tag_flac"
  /\ art.before = <<"front", "earlier_cover">>
  /\ art.cover.path /\ art.cover.isfile /\ art.cover.readable
  /\ art.cover.size = FLAC_MAX_BLOCKSIZE
  /\ art.after = <<CoverPicture>>

\* ------------------------------------------------- claims on login and the secret
\* A step is the answer to user/login, a JSON body without a user_auth_token.
LoginRefused == cpc = "await_login" /\ cnet'.login_body = "no_token"

\* C33: a login failure leaves the session unchanged: when the answer to user/login
\* holds no user_auth_token, login raises, the stored token and the X-User-Auth-Token
\* header are what they were, no probe of a secret is sent, and initialize, which
\* calls login only when it was given no token, raises with it.
C33_LoginFailureKeepsSession ==
  [][LoginRefused =>
       /\ cl'.error = "login_failed"
       /\ cl'.user_auth_token = cl.user_auth_token
       /\ cl'.hdr_token = cl.hdr_token
       /\ cl'.active_secret = cl.active_secret
       /\ cnet'.probe = 0
       /\ cl'.find = "none"
       /\ cl.caller = "initialize" /\ cl.arg_email /\ ~cl.arg_token
       /\ cpc' = "failed"]_vars

\* initialize, given email and password alone, has raised on a user/login answer
\* without a token: the client holds no token and has probed nothing.
C33_Witness ==
  /\ cpc = "failed"
  /\ cl.error = "login_failed"
  /\ cnet.login_body = "no_token"
  /\ cnet.login = 1
  /\ cl.arg_email /\ ~cl.arg_token /\ ~cl.arg_app_id /\ ~cl.arg_secret
  /\ cl.user_auth_token = "" /\ cl.hdr_token = ""
  /\ cnet.probe = 0

\* ------------------------------------------------- claims on overlapping requests
\* C34: the format of one download is one: in every download_track call the format id
\* sent to track/getFileUrl is the quality tier by which the extension and the writer
\* are chosen, whatever other requests assign to the downloader's quality while the
\* call is suspended.
C34_FormatConsistent ==
  \A p \in Procs :
    /\ call[p].ext # "" =>
         /\ call[p].ext = Extension(call[p].qsent)
         /\ call[p].is_mp3 = IsMp3(call[p].qsent)
    /\ call[p].writer # "none" => call[p].writer = Writer(IsMp3(call[p].qsent))

\* A step of call p puts its temp file under the final name.
Finalizes(p) == pc[p] \in {"tagging", "renaming"} /\ pc'[p] = "returned"

\* C35: a file under a final name is complete: the rename that put it there took a temp
\* file holding the whole body of the one download that renames it, no more and no
\* less, which no download had open for writing; and no download writes to a file
\* that has a final name.
C35_FinalComplete ==
  [][\A p \in Procs :
       /\ Finalizes(p) =>
            /\ audio'[Final(p)].ex
            /\ audio'[Final(p)].chunks = Len(call[p].body)
            /\ \A q \in Procs : ~(OnPath(call[q], Final(p)) /\ call[q].fh = "tmp")
       /\ call'[p].fh # "final"]_vars

\* A step of handler p is the rmtree of its finally clause.
CleanupStep(p) == hpc[p] = "finishing" /\ hpc'[p] = "done" /\ folder /\ ~folder'

\* Request q is between the start of its download and the end of its delivery.
InFlight(q) == hpc[q] \in {"in_call", "sending"}

\* The audio files of request q: the temp file it streams to or tags, the final file
\* it has returned or is sending.
OwnAudio(q) ==
  {a \in AudioPaths :
     \/ pc[q] \in {"streaming", "tagging", "renaming"} /\ a = Tmp(q)
     \/ pc[q] = "returned" /\ ret[q].kind = "triple" /\ a = ret[q].path
     \/ hpc[q] = "sending" /\ a[1] = "final" /\ a[2] = hst[q].track}

\* Request q uses cover.jpg: its call has the cover's path, or it is sending the audio
\* whose metadata names it.
UsesCover(q) == call[q].cover_path \/ hpc[q] = "sending"

\* C36: the cleanup of one request does not disturb another: when a bot handler
\* removes its download folder, no other request in flight on the same album folder
\* loses its cover.jpg, its temp file or its final file.
C36_CleanupIsolated ==
  [][\A p, q \in Procs :
       (CleanupStep(p) /\ q # p /\ InFlight(q)) =>
         /\ (UsesCover(q) /\ cover_file # 0) => cover_file' # 0
         /\ \A a \in OwnAudio(q) : audio[a].ex => audio'[a].ex]_vars

\* A step ends initialize normally.
InitializeReturns == cpc # "ready" /\ cpc' = "ready" /\ cl'.caller = "initialize"

\* C37: the secret is usable after initialization: whatever the constructor was given,
\* when initialize returns active_secret is a non-empty string, the configured secret
\* or a discovered one; and active_secret takes a value only in the constructor (the
\* configured secret) or when the probe of a non-empty member of the candidate list
\* is answered 200 or 403 (that member).
C37_UsableSecret ==
  [][/\ InitializeReturns =>
          /\ cl'.active_secret # ""
          /\ \/ cl'.arg_secret /\ cl'.active_secret = ConfiguredSecret
             \/ cl'.active_secret \in {SecretOf(tz) : tz \in Timezones}
     /\ cl'.active_secret # cl.active_secret =>
          \/ /\ cpc = "new"
             /\ cl'.active_secret = IF cl'.arg_secret THEN ConfiguredSecret ELSE ""
          \/ /\ cpc = "await_probe"
             /\ Last(cl'.answers) \in {"200", "403"}
             /\ Len(cl'.answers) = Len(cl.probed)
             /\ Last(cl.probed) \in 1..Len(cl.secrets)
             /\ cl'.active_secret = cl.secrets[Last(cl.probed)]
             /\ cl'.active_secret # ""]_vars

\* initialize, given no secret, has returned with the second candidate it probed,
\* accepted with a 403 after the first was refused.
C37_Witness ==
  /\ cpc = "ready"
  /\ cl.caller = "initialize"
  /\ ~cl.arg_secret
  /\ cl.find = "found"
  /\ Len(cl.probed) = 2
  /\ cl.answers = <<"400", "403">>
  /\ cl.active_secret = cl.secrets[cl.probed[2]]
  /\ cl.active_secret # ""

====
